---- MODULE Spec2Model ----
(***************************************************************************)
(* Model of the Slack Claude Bot polling coordinator (SlackClaudeBot in    *)
(* the main entry point), the command parser and the Slack collaborator.   *)
(*                                                                         *)
(* An async method is cut at its awaits on I/O: one action is the code     *)
(* that runs between the completion of one Slack call and the issue of the *)
(* next one.  setInterval starts poll() without waiting for the previous   *)
(* poll(), so several ticks can be suspended at the same time.  The        *)
(* external CLI is run with execSync, which does not suspend.              *)
(***************************************************************************)
EXTENDS Integers, Sequences, FiniteSets, Bags, TLC

(***************************************************************************)
(* Bounds of the model.                                                    *)
(***************************************************************************)
MaxTicks == 2
MaxUserMsgs == 3
MaxFailures == 1

(***************************************************************************)
(* Configuration (AppConfig).                                              *)
(***************************************************************************)
channelIds == <<"C1", "C2">>
Channels == {channelIds[i] : i \in 1..Len(channelIds)}
botUserId == "B0"
UserId == "U1"
ProjectD == <<"d">>
PathText == <<"/", "s", "r", "v", "/", "d">>
NoPath == <<>>   \* undefined
ConfigProjects == {ProjectD}
ConfigChannelDefault(c) == ProjectD

\* A plain object ({} in expandEnvVars, the literal FILE_OPERATION_LABELS)
\* answers a lookup by a name it does not own with the member of
\* Object.prototype of that name.  The value is given as the text that
\* JavaScript makes of it (a function or an object: truthy).
ProtoConstructor == <<"c", "o", "n", "s", "t", "r", "u", "c", "t", "o", "r">>
ProtoProto == <<"_", "_", "p", "r", "o", "t", "o", "_", "_">>
ObjectPrototypeFunctions ==
  {<<"c", "o", "n", "s", "t", "r", "u", "c", "t", "o", "r">>,
   <<"_", "_", "d", "e", "f", "i", "n", "e", "G", "e", "t", "t", "e", "r", "_", "_">>,
   <<"_", "_", "d", "e", "f", "i", "n", "e", "S", "e", "t", "t", "e", "r", "_", "_">>,
   <<"h", "a", "s", "O", "w", "n", "P", "r", "o", "p", "e", "r", "t", "y">>,
   <<"_", "_", "l", "o", "o", "k", "u", "p", "G", "e", "t", "t", "e", "r", "_", "_">>,
   <<"_", "_", "l", "o", "o", "k", "u", "p", "S", "e", "t", "t", "e", "r", "_", "_">>,
   <<"i", "s", "P", "r", "o", "t", "o", "t", "y", "p", "e", "O", "f">>,
   <<"p", "r", "o", "p", "e", "r", "t", "y", "I", "s", "E", "n", "u", "m", "e", "r", "a", "b", "l", "e">>,
   <<"t", "o", "S", "t", "r", "i", "n", "g">>,
   <<"v", "a", "l", "u", "e", "O", "f">>,
   <<"t", "o", "L", "o", "c", "a", "l", "e", "S", "t", "r", "i", "n", "g">>}
NativeCode(name) ==
  <<"f", "u", "n", "c", "t", "i", "o", "n", " ">> \o name \o <<"(", ")", " ", "{", " ", "[", "n", "a", "t", "i", "v", "e", " ", "c", "o", "d", "e", "]", " ", "}">>
Inherits(name) == name \in ObjectPrototypeFunctions \cup {ProtoProto}
InheritedMember(name) ==
  IF name = ProtoConstructor THEN NativeCode(<<"O", "b", "j", "e", "c", "t">>)
  ELSE IF name = ProtoProto THEN <<"[", "o", "b", "j", "e", "c", "t", " ", "O", "b", "j", "e", "c", "t", "]">>
  ELSE NativeCode(name)

\* this.config.projects[command.projectName] (line 229)
ProjectPath(name) ==
  IF name \in ConfigProjects THEN PathText
  ELSE IF Inherits(name) THEN InheritedMember(name)
  ELSE NoPath

(***************************************************************************)
(* Text is a sequence of one-character strings.                            *)
(***************************************************************************)
\* the white space of \s and of trim()
IsWs(c) ==
  c \in
    {" ", "\n", "\t", "\r", "\f", "U+000B", "U+00A0", "U+1680",
     "U+2000", "U+2001", "U+2002", "U+2003", "U+2004", "U+2005", "U+2006", "U+2007", "U+2008", "U+2009", "U+200A",
     "U+2028", "U+2029", "U+202F", "U+205F", "U+3000", "U+FEFF"}
\* the class [A-Z0-9] of the mention pattern (line 334)
IsMentionChar(c) ==
  c \in {"A", "B", "C", "D", "E", "F", "G", "H", "I", "J", "K", "L", "M", "N", "O", "P", "Q", "R", "S", "T", "U", "V", "W", "X", "Y", "Z",
         "0", "1", "2", "3", "4", "5", "6", "7", "8", "9"}

RECURSIVE WsRun(_)
WsRun(s) == IF s = <<>> \/ ~IsWs(Head(s)) THEN 0 ELSE 1 + WsRun(Tail(s))

RECURSIVE NonWsRun(_)
NonWsRun(s) == IF s = <<>> \/ IsWs(Head(s)) THEN 0 ELSE 1 + NonWsRun(Tail(s))

Drop(s, n) == SubSeq(s, n + 1, Len(s))
Take(s, n) == SubSeq(s, 1, n)

RECURSIVE TrimEnd(_)
TrimEnd(s) == IF s = <<>> \/ ~IsWs(s[Len(s)]) THEN s ELSE TrimEnd(Take(s, Len(s) - 1))

Trim(s) == TrimEnd(Drop(s, WsRun(s)))

StartsWith(s, p) == Len(s) >= Len(p) /\ Take(s, Len(p)) = p

RECURSIVE IndexOf(_, _)
IndexOf(s, c) ==
  IF s = <<>> THEN 0
  ELSE IF Head(s) = c THEN 1
  ELSE LET r == IndexOf(Tail(s), c) IN IF r = 0 THEN 0 ELSE r + 1

Trigger == <<"!", "c", "l", "a", "u", "d", "e">>
NoMatch == [ok |-> FALSE, project |-> <<>>, body |-> <<>>]

\* the pattern without its s flag: (.+) stops at a line break
COMMAND_PATTERNMutant(text) ==
  IF ~StartsWith(text, Trigger) THEN NoMatch
  ELSE LET r1 == Drop(text, Len(Trigger))
           w1 == WsRun(r1)
           r2 == Drop(r1, w1)
           n  == NonWsRun(r2)
           r3 == Drop(r2, n)
           w2 == WsRun(r3)
           r4 == Drop(r3, w2)
       IN IF w1 = 0 \/ n = 0 \/ w2 = 0 THEN NoMatch
          ELSE IF r4 # <<>> /\ IndexOf(r4, "\n") = 0
            THEN [ok |-> TRUE, project |-> Take(r2, n), body |-> r4]
          ELSE NoMatch

\* COMMAND_PATTERN = /^!claude\s+(\S+)\s+(.+)$/s, as String.match applies it
COMMAND_PATTERN(text) ==
  IF ~StartsWith(text, Trigger) THEN NoMatch
  ELSE LET r1 == Drop(text, Len(Trigger))
           w1 == WsRun(r1)
           r2 == Drop(r1, w1)
           n  == NonWsRun(r2)
           r3 == Drop(r2, n)
           w2 == WsRun(r3)
           r4 == Drop(r3, w2)
       IN IF w1 = 0 \/ n = 0 \/ w2 = 0 THEN NoMatch
          ELSE IF r4 # <<>> THEN [ok |-> TRUE, project |-> Take(r2, n), body |-> r4]
          ELSE IF w2 >= 2 THEN [ok |-> TRUE, project |-> Take(r2, n), body |-> <<r3[w2]>>]
          ELSE NoMatch

NoCommand == [ok |-> FALSE, projectName |-> <<>>, prompt |-> <<>>]

parseCommand(text0, defaultProject) ==
  LET text == Trim(text0)
      m == COMMAND_PATTERN(text)
  IN IF text = <<>> THEN NoCommand
     ELSE IF m.ok THEN [ok |-> TRUE, projectName |-> m.project, prompt |-> Trim(m.body)]
     ELSE IF defaultProject # <<>> /\ StartsWith(text, <<"<", "@">>)
       THEN LET mentionEnd == IndexOf(text, ">")
                prompt == Trim(Drop(text, mentionEnd))
            IN IF mentionEnd # 0 /\ prompt # <<>>
                 THEN [ok |-> TRUE, projectName |-> defaultProject, prompt |-> prompt]
                 ELSE NoCommand
     ELSE NoCommand

RECURSIVE MentionRun(_)
MentionRun(s) == IF s = <<>> \/ ~IsMentionChar(Head(s)) THEN 0 ELSE 1 + MentionRun(Tail(s))

\* prompt.replace(/<@[A-Z0-9]+>/g, '')
RECURSIVE StripMentions(_)
StripMentions(s) ==
  IF s = <<>> THEN <<>>
  ELSE IF StartsWith(s, <<"<", "@">>)
    THEN LET k == MentionRun(Drop(s, 2))
         IN IF k >= 1 /\ Len(s) >= k + 3 /\ s[k + 3] = ">"
              THEN StripMentions(Drop(s, k + 3))
              ELSE <<Head(s)>> \o StripMentions(Tail(s))
  ELSE <<Head(s)>> \o StripMentions(Tail(s))

\* lines 328-337 of handleThreadReply
cleanPromptOfMutant(text) == Trim(text)
cleanPromptOf(text) ==
  LET prompt == Trim(text)
  IN IF prompt = <<>> THEN <<>> ELSE Trim(StripMentions(prompt))

(***************************************************************************)
(* The execution adapter (claude-executor.ts).  The standard output of the *)
(* CLI is a list of lines; a line is its text together with what           *)
(* JSON.parse makes of that text.  Of a parsed object the decoder reads    *)
(* type, result, session_id and tool_use_result.{type, filePath}; an       *)
(* absent field and an empty string are both falsy and are both written    *)
(* <<>> (0 for session_id).  A character outside ASCII is written by its   *)
(* code point, one element per UTF-16 unit.                                *)
(***************************************************************************)
Rep(c, n) == [i \in 1..n |-> c]

\* Array.prototype.join
RECURSIVE Join(_, _)
Join(parts, sep) ==
  IF parts = <<>> THEN <<>>
  ELSE IF Len(parts) = 1 THEN parts[1]
  ELSE parts[1] \o sep \o Join(Tail(parts), sep)

Digits == <<"1", "2", "3", "4", "5", "6", "7", "8", "9">>
SidText(sid) == <<Digits[sid]>>

Line(text, kind, isResult, result, session_id, turType, filePath) ==
  [text |-> text,
   json |-> [kind |-> kind, isResult |-> isResult, result |-> result,
             session_id |-> session_id, turType |-> turType, filePath |-> filePath]]

\* {"type":"result","result":"...","session_id":"..."}
ResultLine(res, sid) ==
  Line(<<"{", "\"", "t", "y", "p", "e", "\"", ":", "\"", "r", "e", "s", "u", "l", "t", "\"",
         ",", "\"", "r", "e", "s", "u", "l", "t", "\"", ":", "\"">> \o res \o
       (IF sid = 0 THEN <<>>
        ELSE <<"\"", ",", "\"", "s", "e", "s", "s", "i", "o", "n", "_", "i", "d", "\"",
               ":", "\"">> \o SidText(sid)) \o
       <<"\"", "}">>,
       "object", TRUE, res, sid, <<>>, <<>>)

\* {"tool_use_result":{"type":"...","filePath":"..."}}
ToolLine(type, path) ==
  Line((IF type = <<>>
          THEN <<"{", "\"", "t", "o", "o", "l", "_", "u", "s", "e", "_", "r", "e", "s", "u",
                 "l", "t", "\"", ":", "{", "\"", "f", "i", "l", "e", "P", "a", "t", "h", "\"",
                 ":", "\"">>
          ELSE <<"{", "\"", "t", "o", "o", "l", "_", "u", "s", "e", "_", "r", "e", "s", "u",
                 "l", "t", "\"", ":", "{", "\"", "t", "y", "p", "e", "\"", ":", "\"">> \o type \o
               <<"\"", ",", "\"", "f", "i", "l", "e", "P", "a", "t", "h", "\"", ":", "\"">>) \o
       path \o <<"\"", "}", "}">>,
       "object", FALSE, <<>>, 0, type, path)

\* {"type":"assistant"}
OtherLine ==
  Line(<<"{", "\"", "t", "y", "p", "e", "\"", ":", "\"", "a", "s", "s", "i", "s", "t", "a",
         "n", "t", "\"", "}">>,
       "object", FALSE, <<>>, 0, <<>>, <<>>)

\* not json: JSON.parse throws
BadLine(text) == Line(text, "bad", FALSE, <<>>, 0, <<>>, <<>>)
\* null: JSON.parse returns null, and reading a property of it throws
NullLine == Line(<<"n", "u", "l", "l">>, "null", FALSE, <<>>, 0, <<>>, <<>>)
\* a line of white space
BlankLine == Line(<<" ">>, "bad", FALSE, <<>>, 0, <<>>, <<>>)

JSONparse(line) == [ok |-> line.json.kind # "bad", value |-> line.json]

\* the text of an output: every line ends with a newline
RECURSIVE RawText(_)
RawText(lines) ==
  IF lines = <<>> THEN <<>> ELSE Head(lines).text \o <<"\n">> \o RawText(Tail(lines))

\* rawOutput.split('\n').filter(line => line.trim())
RECURSIVE SplitLines(_)
SplitLines(rawOutput) ==
  IF rawOutput = <<>> THEN <<>>
  ELSE IF Trim(Head(rawOutput).text) = <<>> THEN SplitLines(Tail(rawOutput))
  ELSE <<Head(rawOutput)>> \o SplitLines(Tail(rawOutput))

TypeUnknown == <<"u", "n", "k", "n", "o", "w", "n">>
NoParsed == [result |-> <<>>, sessionId |-> 0, modifiedFiles |-> <<>>]

\* lines 213-218
pushFile(acc, json) ==
  IF json.filePath # <<>>
    THEN [acc EXCEPT !.modifiedFiles =
            Append(@, [type |-> IF json.turType # <<>> THEN json.turType ELSE TypeUnknown,
                       filePath |-> json.filePath])]
    ELSE acc

\* lines 221-224
takeResultMutant(acc, json) ==   \* the first result record wins
  IF json.isResult /\ acc.result = <<>> /\ acc.sessionId = 0
    THEN [acc EXCEPT !.result = json.result, !.sessionId = json.session_id]
    ELSE acc
takeResult(acc, json) ==
  IF json.isResult
    THEN [acc EXCEPT !.result = json.result, !.sessionId = json.session_id]
    ELSE acc

\* lines 225-227: the catch is empty, the loop goes on with the next line
afterCatchMutant(rest) == <<>>   \* the error ends the loop
afterCatch(rest) == rest

RECURSIVE decodeLoop(_, _)
decodeLoop(lines, acc) ==
  IF lines = <<>> THEN acc
  ELSE LET json == JSONparse(Head(lines))
       IN IF ~json.ok \/ json.value.kind = "null"
            THEN decodeLoop(afterCatch(Tail(lines)), acc)
            ELSE decodeLoop(Tail(lines), takeResult(pushFile(acc, json.value), json.value))

parseStreamJsonOutput(rawOutput) == decodeLoop(SplitLines(rawOutput), NoParsed)

\* result.output of a success that decoded no text
Placeholder == <<"U+FF08", "U+51FA", "U+529B", "U+306A", "U+3057", "U+FF09">>

\* line 303
outputOrPlaceholderMutant(result) == result
outputOrPlaceholder(result) == IF result # <<>> THEN result ELSE Placeholder

\* line 327
errorTextMutant(stderr, message) == stderr
errorText(stderr, message) == IF stderr # <<>> THEN stderr ELSE message

\* What execSync did: exit is "ok" (exit status 0), "nonzero", "timeout"
\* (killed after 300000 ms) or "launch" (the process could not be started).
\* In the last three cases execSync throws an Error that carries stdout,
\* stderr and a message.
ProcessExits == {"ok", "nonzero", "timeout", "launch"}

executeClaudeCodeWithSession(proc) ==
  IF proc.exit = "ok"
    THEN LET parsed == parseStreamJsonOutput(proc.stdout)
         IN [success |-> TRUE,
             output |-> outputOrPlaceholder(parsed.result),
             error |-> <<>>,
             sessionId |-> parsed.sessionId,
             modifiedFiles |-> parsed.modifiedFiles]
    ELSE [success |-> FALSE,
          output |-> RawText(proc.stdout),
          error |-> errorText(proc.stderr, proc.message),
          sessionId |-> 0,
          modifiedFiles |-> IF RawText(proc.stdout) # <<>>
                              THEN parseStreamJsonOutput(proc.stdout).modifiedFiles
                              ELSE <<>>]

(***************************************************************************)
(* The reply composed from a result (handleMessage lines 266-280,          *)
(* handleThreadReply lines 374-388).                                       *)
(***************************************************************************)
Budget == 3900
Marker == <<"\n", ".", ".", ".", "(", "U+7701", "U+7565", ")">>
ErrorPrefix == <<"U+30A8", "U+30E9", "U+30FC", ":", "\n">>
OutputPrefix == <<"\n", "\n", "U+51FA", "U+529B", ":", "\n">>
FilesHeader == <<"\n", "\n", "*", "U+5909", "U+66F4", "U+3055", "U+308C", "U+305F", "U+30D5",
                 "U+30A1", "U+30A4", "U+30EB", ":", "*", "\n">>

TypeCreate == <<"c", "r", "e", "a", "t", "e">>
TypeEdit == <<"e", "d", "i", "t">>
TypeDelete == <<"d", "e", "l", "e", "t", "e">>

\* FILE_OPERATION_LABELS[file.type] || file.type
FILE_OPERATION_LABELS(type) ==
  IF type = TypeCreate THEN <<"U+4F5C", "U+6210">>
  ELSE IF type = TypeEdit THEN <<"U+7DE8", "U+96C6">>
  ELSE IF type = TypeDelete THEN <<"U+524A", "U+9664">>
  ELSE IF type = TypeUnknown THEN <<"U+64CD", "U+4F5C">>
  ELSE IF Inherits(type) THEN InheritedMember(type)
  ELSE type

fileEntry(file, projectPath) ==
  LET relativePath == IF StartsWith(file.filePath, projectPath)
                        THEN Drop(file.filePath, Len(projectPath) + 1)
                        ELSE file.filePath
  IN <<"U+2022", " ", "[">> \o FILE_OPERATION_LABELS(file.type) \o <<"]", " ">> \o relativePath

formatFileOperations(files, projectPath) ==
  IF files = <<>> THEN <<>>
  ELSE FilesHeader \o
       Join([i \in 1..Len(files) |-> fileEntry(files[i], projectPath)], <<"\n">>)

truncate(text) == IF Len(text) > Budget THEN Take(text, Budget) \o Marker ELSE text

composed(result, projectPath) ==
  LET base == IF ~result.success /\ result.error # <<>>
                THEN ErrorPrefix \o result.error \o OutputPrefix \o result.output
                ELSE IF result.output # <<>> THEN result.output ELSE Placeholder
  IN IF result.modifiedFiles # <<>>
       THEN base \o formatFileOperations(result.modifiedFiles, projectPath)
       ELSE base

responseText(result, projectPath) == truncate(composed(result, projectPath))


(***************************************************************************)
(* State.                                                                  *)
(*   slack, now          the chat platform: the messages that exist and    *)
(*                       the platform clock that stamps them               *)
(*   processedMessages   the dedup ledger (a Set of ts strings)            *)
(*   heap, threadSessions  the ThreadSession objects and the Map from      *)
(*                       "channelId:threadTs" to a reference to one        *)
(*   threadLastChecked   the per-thread watermark Map                      *)
(*   lastTimestamp       the watermark field of SlackClaudeBot             *)
(*   ticks, fired        the invocations of poll() that are suspended at   *)
(*                       an await (a bag of their local states), and how   *)
(*                       many setInterval has started                      *)
(*   doneTicks, audit    what the invocations that returned had done,      *)
(*                       recorded in the runs in which audit is set        *)
(*   script, posted, userMsgs   what the users post, and the ts of what    *)
(*                       they have posted                                  *)
(*   failures, nextSid   counters of the environment                       *)
(*   trace, execLog, lastDone      history of what was done per message    *)
(*   input, output       a function applied on its own: what it was given  *)
(*                       and what it returned                              *)
(***************************************************************************)
VARIABLES slack, now, script, posted, audit, processedMessages, heap, threadSessions,
          threadLastChecked, lastTimestamp, ticks, doneTicks, fired, failures,
          userMsgs, nextSid, trace, execLog, lastDone, input, output

botVars == <<slack, now, script, posted, audit, processedMessages, heap, threadSessions,
             threadLastChecked, lastTimestamp, ticks, doneTicks, fired, failures,
             userMsgs, nextSid, trace, execLog, lastDone>>

vars == <<botVars, input, output>>

EmptyFn == [k \in {} |-> 0]
NoInput == [fn |-> "none"]
NoOutput == [fn |-> "none"]
NoMsg == [ch |-> "", ts |-> 0, thread |-> 0, user |-> "", text |-> <<>>, files |-> <<>>]
NoThread == [threadTs |-> 0, session |-> 0]
NoResult == [success |-> FALSE, sessionId |-> 0]

SetMax(S) == CHOOSE x \in S : \A y \in S : y <= x
SetMin(S) == CHOOSE x \in S : \A y \in S : x <= y

\* the messages of S as a list, oldest first / newest first
RECURSIVE Ascending(_)
Ascending(S) ==
  IF S = {} THEN <<>>
  ELSE LET m == CHOOSE x \in S : x.ts = SetMin({y.ts : y \in S})
       IN <<m>> \o Ascending(S \ {m})

RECURSIVE Descending(_)
Descending(S) ==
  IF S = {} THEN <<>>
  ELSE LET m == CHOOSE x \in S : x.ts = SetMax({y.ts : y \in S})
       IN <<m>> \o Descending(S \ {m})

\* Math.max(...messages.map((m) => parseFloat(m.ts))); 0 stands for "no message"
latestTs(messages) ==
  IF messages = <<>> THEN 0 ELSE SetMax({messages[i].ts : i \in 1..Len(messages)})

getSessionKey(channelId, threadTs) == <<channelId, threadTs>>

\* Map.get / Map.set on threadSessions, a list of entries in insertion order
SessionIndex(ts, key) ==
  IF \E i \in 1..Len(ts) : ts[i].key = key
    THEN CHOOSE i \in 1..Len(ts) : ts[i].key = key
    ELSE 0

SessionSet(ts, key, ref) ==
  IF SessionIndex(ts, key) = 0
    THEN Append(ts, [key |-> key, session |-> ref])
    ELSE [ts EXCEPT ![SessionIndex(ts, key)].session = ref]

MapSet(f, k, v) == IF k \in DOMAIN f THEN [f EXCEPT ![k] = v] ELSE f @@ (k :> v)

\* threadLastChecked.get(sessionKey) || threadTs
lastCheckedOf(tlc, channelId, threadTs) ==
  IF getSessionKey(channelId, threadTs) \in DOMAIN tlc
    THEN tlc[getSessionKey(channelId, threadTs)]
    ELSE threadTs

(***************************************************************************)
(* The Slack collaborator: what a fetch returns when it completes.         *)
(***************************************************************************)
getChannelHistory(channelId, oldest) ==
  Descending({m \in slack : m.ch = channelId /\ m.thread = 0 /\ m.ts >= oldest})

getThreadReplies(channelId, threadTs, oldest) ==
  Ascending({m \in slack : /\ m.ch = channelId
                           /\ (m.thread = threadTs \/ (m.thread = 0 /\ m.ts = threadTs))
                           /\ m.ts >= oldest})

(***************************************************************************)
(* The local state of one invocation of poll().                            *)
(***************************************************************************)
IdleTick ==
  [pc |-> "idle", ci |-> 0, oldest |-> 0, batch |-> <<>>, latest |-> 0,
   msg |-> NoMsg, command |-> NoCommand, thread |-> NoThread, threads |-> <<>>,
   files |-> <<>>, images |-> 0, result |-> NoResult, prev |-> 0,
   polled |-> {}, captured |-> {}, failed |-> {}, postFailed |-> FALSE,
   startTs |-> 0, startChecked |-> EmptyFn, id |-> 0]

Event(op, arg) == [op |-> op, arg |-> arg]
Count(seq, op) == Cardinality({i \in 1..Len(seq) : seq[i].op = op})
MsgKey(m) == <<m.ch, m.ts>>

Log(st, m, op, arg) ==
  [st EXCEPT !.trace =
     IF MsgKey(m) \in DOMAIN @
       THEN [@ EXCEPT ![MsgKey(m)] = Append(@, Event(op, arg))]
       ELSE @ @@ (MsgKey(m) :> <<Event(op, arg)>>)]

Suspend(st, pc) == [st EXCEPT !.l.pc = pc]

\* the record a tick keeps of what it did (runs with audit set)
notePolled(st, src) == IF st.audit THEN [st EXCEPT !.l.polled = @ \cup {src}] ELSE st
noteCaptured(st, srcs) == IF st.audit THEN [st EXCEPT !.l.captured = @ \cup srcs] ELSE st
noteFailed(st, f) == IF st.audit THEN [st EXCEPT !.l.failed = @ \cup {f}] ELSE st
notePostFailed(st) == IF st.audit THEN [st EXCEPT !.l.postFailed = TRUE] ELSE st
noteStart(st) ==
  IF st.audit THEN [st EXCEPT !.l.startTs = st.lastTimestamp,
                              !.l.startChecked = st.threadLastChecked]
  ELSE st

\* poll() returns (normally or through its catch): the tick is over
finish(st) == [st EXCEPT !.l.pc = "done"]

ChannelOf(st) == channelIds[st.l.ci]


(***************************************************************************)
(* The external CLI, seen from the coordinator: it succeeds and reports a  *)
(* session id, succeeds without one, or fails (timeout, non-zero exit).    *)
(***************************************************************************)
ExecOutcomes == {"ok_sid", "ok", "fail"}

\* what execSync did in each of the three cases; sid is the session id the
\* CLI reports
Process(x, sid) ==
  [exit |-> IF x = "fail" THEN "nonzero" ELSE "ok",
   stdout |-> IF x = "ok_sid" THEN <<ResultLine(<<"a">>, sid)>>
              ELSE IF x = "ok" THEN <<ResultLine(<<"a">>, 0)>>
              ELSE <<>>,
   stderr |-> IF x = "fail" THEN <<"e">> ELSE <<>>,
   message |-> IF x = "fail" THEN <<"m">> ELSE <<>>]

(***************************************************************************)
(* The code between two awaits, as functions of the machine state st: the  *)
(* module-level maps, the fields of the bot and the locals st.l of the     *)
(* running tick.  st.l.pc = "run" while the code runs; any other value is  *)
(* the await the tick is suspended at.                                     *)
(***************************************************************************)
alreadyProcessedMutant(st, message) == FALSE
alreadyProcessed(st, message) == message.ts \in st.processedMessages

markProcessedMutant(st, message) == st
markProcessed(st, message) ==
  Log([st EXCEPT !.processedMessages = @ \cup {message.ts}], message, "seen", 0)

\* if (!command) return (lines 217-219): before processedMessages.add
notParsedMutant(st, message) == markProcessed(st, message)
notParsed(st, message) == st

\* message.user === this.botUserId (lines 208 and 321)
fromBotMutant(message) == FALSE
fromBot(message) == message.user = botUserId

resumeSessionId(st) == st.heap[st.l.thread.session].sessionId

\* file.mimetype?.startsWith('image/') (line 247)
ImagePrefix == <<"i", "m", "a", "g", "e", "/">>
MimePng == ImagePrefix \o <<"p", "n", "g">>
MimeJpeg == ImagePrefix \o <<"j", "p", "e", "g">>
IsImage(file) == StartsWith(file.mimetype, ImagePrefix)

RECURSIVE channelLoop(_)
RECURSIVE messageLoop(_)
RECURSIVE threadLoop(_)
RECURSIVE replyLoop(_)
RECURSIVE downloadLoop(_)

\* handleMessage up to its first await (lines 201-241)
handleMessage(st) ==
  LET message == st.l.msg
      command == parseCommand(message.text, ConfigChannelDefault(ChannelOf(st)))
      projectPath == ProjectPath(command.projectName)
  IN IF alreadyProcessed(st, message) THEN st
     ELSE IF fromBot(message) THEN markProcessed(st, message)
     ELSE IF ~command.ok THEN notParsed(st, message)
     ELSE LET st1 == Log(markProcessed(st, message), message, "route", 0)
              st2 == [st1 EXCEPT !.l.command = command]
          IN IF projectPath = NoPath
               THEN Suspend(Log(st2, message, "post_nf", message.ts), "post_nf")
               ELSE Suspend(Log(st2, message, "post_ack", message.ts), "post_ack")

\* handleThreadReply up to its first await (lines 309-348)
handleThreadReply(st) ==
  LET message == st.l.msg
      threadTs == st.l.thread.threadTs
      key == getSessionKey(ChannelOf(st), threadTs)
      cleanPrompt == cleanPromptOf(message.text)
  IN IF alreadyProcessed(st, message) THEN st
     ELSE IF fromBot(message) THEN markProcessed(st, message)
     ELSE LET st1 == markProcessed(st, message)
          IN IF cleanPrompt = <<>> THEN st1
             ELSE LET st2 == Log(st1, message, "route", 0)
                      st3 == [st2 EXCEPT !.l.command =
                                [ok |-> TRUE,
                                 projectName |-> st.heap[st.l.thread.session].projectName,
                                 prompt |-> cleanPrompt],
                              !.l.prev = st.lastDone[key]]
                  IN Suspend(Log(st3, message, "post_ack", threadTs), "post_ack")

\* executeClaudeCodeWithSession and the post of the result
\* (lines 258-282 and 365-390)
execute(st) ==
  LET message == st.l.msg
      isReply == st.l.thread # NoThread
      threadTs == IF isReply THEN st.l.thread.threadTs ELSE message.ts
      key == getSessionKey(ChannelOf(st), threadTs)
      resume == IF isReply THEN resumeSessionId(st) ELSE 0
      full == executeClaudeCodeWithSession(Process(st.x, st.nextSid))
      result == [success |-> full.success, sessionId |-> full.sessionId]
      st1 == [st EXCEPT !.nextSid = IF result.sessionId # 0 THEN @ + 1 ELSE @,
                        !.l.result = result,
                        !.execLog = @ \cup
                           {[msg |-> MsgKey(message),
                             thread |-> IF isReply THEN threadTs ELSE 0,
                             prompt |-> st.l.command.prompt,
                             resume |-> resume,
                             sid |-> result.sessionId,
                             prev |-> st.l.prev,
                             cur |-> IF isReply THEN st.lastDone[key] ELSE 0]}]
  IN Suspend(Log(Log(st1, message, "exec", resume), message, "post_result", threadTs),
             "post_result")

\* the loop over message.files (lines 243-256 and 350-363)
downloadLoop(st) ==
  IF st.l.files = <<>> THEN execute(st)
  ELSE LET file == Head(st.l.files)
           st1 == [st EXCEPT !.l.files = Tail(@)]
       IN IF ~IsImage(file) THEN downloadLoop(st1)
          ELSE IF ~file.url_private THEN downloadLoop(st1)
          ELSE Suspend(Log(st1, st.l.msg, "download", 0), "download")

\* threadLastChecked.set(sessionKey, message.ts) (line 293)
initialWatermarkMutant(st, message) == st.lastTimestamp
initialWatermark(st, message) == message.ts

\* handleMessage after the post of the result (lines 284-299)
saveSession(st) ==
  LET message == st.l.msg
      sessionKey == getSessionKey(ChannelOf(st), message.ts)
      session == [projectName |-> st.l.command.projectName,
                  projectPath |-> ProjectPath(st.l.command.projectName),
                  sessionId |-> st.l.result.sessionId]
      ref == Len(st.heap) + 1
      st1 == [st EXCEPT !.heap = Append(@, session),
                        !.threadSessions = SessionSet(@, sessionKey, ref),
                        !.threadLastChecked =
                           MapSet(@, sessionKey, initialWatermark(st, message)),
                        !.lastDone = MapSet(@, sessionKey, 0)]
  IN Log(st1, message, "session", st.l.result.sessionId)

\* session.sessionId = result.sessionId (line 394)
withSessionIdMutant(session, sessionId) ==
  [session EXCEPT !.sessionId = sessionId, !.projectPath = NoPath]
withSessionId(session, sessionId) == [session EXCEPT !.sessionId = sessionId]

\* handleThreadReply after the post of the result (lines 392-397)
updateSessionIdMutant(st) == st
updateSessionId(st) ==
  LET sessionKey == getSessionKey(ChannelOf(st), st.l.thread.threadTs)
      ref == st.l.thread.session
  IN IF st.l.result.sessionId # 0
       THEN [st EXCEPT !.heap[ref] = withSessionId(@, st.l.result.sessionId),
                       !.threadSessions = SessionSet(@, sessionKey, ref)]
       ELSE st

\* history: the session id returned by the last reply of the thread whose
\* handling has finished
noteDone(st, result) ==
  IF result.sessionId # 0
    THEN [st EXCEPT !.lastDone =
            MapSet(@, getSessionKey(ChannelOf(st), st.l.thread.threadTs), result.sessionId)]
    ELSE st

\* the handler returned: back to the loop that called it
ClearHandler(st) ==
  [st EXCEPT !.l.pc = "run", !.l.msg = NoMsg, !.l.command = NoCommand,
             !.l.files = <<>>, !.l.images = 0, !.l.result = NoResult,
             !.l.prev = 0]

\* pollActiveThreads, the capture of the active threads (lines 150-157)
activeThreads(st, channelId) ==
  LET idx == {i \in 1..Len(st.threadSessions) : st.threadSessions[i].key[1] = channelId}
      RECURSIVE pick(_)
      pick(i) ==
        IF i > Len(st.threadSessions) THEN <<>>
        ELSE IF i \in idx
          THEN <<[threadTs |-> st.threadSessions[i].key[2],
                  session |-> st.threadSessions[i].session]>> \o pick(i + 1)
          ELSE pick(i + 1)
  IN pick(1)

\* pollChannel after its loop, then pollActiveThreads (lines 139-157)
pollChannelEnd(st) ==
  LET st1 == IF st.l.latest # 0 THEN [st EXCEPT !.lastTimestamp = st.l.latest] ELSE st
      threads == activeThreads(st1, ChannelOf(st1))
  IN threadLoop(noteCaptured([st1 EXCEPT !.l.latest = 0, !.l.threads = threads],
                             {<<ChannelOf(st1), threads[i].threadTs>> :
                                i \in 1..Len(threads)}))

\* history: a handler is called on a message of the bot (kept once)
noteHanded(st) ==
  LET k == MsgKey(st.l.msg)
  IN IF st.l.msg.user = botUserId /\ ~(k \in DOMAIN st.trace /\ Count(st.trace[k], "handed") >= 1)
       THEN Log(st, st.l.msg, "handed", 0)
       ELSE st

\* the loop of pollChannel (lines 135-137)
messageLoop(st) ==
  IF st.l.batch = <<>> THEN pollChannelEnd(st)
  ELSE LET st1 == handleMessage(noteHanded([st EXCEPT !.l.msg = Head(st.l.batch),
                                                      !.l.batch = Tail(st.l.batch)]))
       IN IF st1.l.pc = "run" THEN messageLoop(ClearHandler(st1)) ELSE st1

\* the loop of pollActiveThreads over the threads (lines 159-164)
threadLoop(st) ==
  IF st.l.threads = <<>>
    THEN channelLoop([st EXCEPT !.l.thread = NoThread, !.l.ci = @ + 1])
    ELSE LET cur == Head(st.l.threads)
             lastChecked == lastCheckedOf(st.threadLastChecked, ChannelOf(st), cur.threadTs)
         IN Suspend(notePolled([st EXCEPT !.l.thread = cur,
                                          !.l.threads = Tail(@),
                                          !.l.oldest = lastChecked],
                               <<ChannelOf(st), cur.threadTs>>),
                    "replies")

\* the loop of pollActiveThreads over the replies (lines 173-179)
replyLoop(st) ==
  IF st.l.batch = <<>> THEN threadLoop(st)
  ELSE LET reply == Head(st.l.batch)
           st0 == [st EXCEPT !.l.batch = Tail(@)]
       IN IF reply.ts = st.l.thread.threadTs THEN replyLoop(st0)
          ELSE LET st1 == handleThreadReply(noteHanded([st0 EXCEPT !.l.msg = reply]))
               IN IF st1.l.pc = "run" THEN replyLoop(ClearHandler(st1)) ELSE st1

\* the loop of poll over the channels (lines 116-122), up to getChannelHistory
channelLoop(st) ==
  IF st.l.ci > Len(channelIds) THEN finish(st)
  ELSE Suspend(notePolled([st EXCEPT !.l.oldest = st.lastTimestamp],
                          <<ChannelOf(st), 0>>),
               "history")

\* poll() from its start
poll(st) ==
  channelLoop(noteStart([st EXCEPT !.l = [IdleTick EXCEPT !.pc = "run", !.ci = 1, !.id = st.l.id]]))


\* the source a tick is fetching, and the lower bound the next fetch of a
\* source would be given (lines 133 and 161)
Source(l) ==
  IF l.pc = "history" THEN <<channelIds[l.ci], 0>>
  ELSE <<channelIds[l.ci], l.thread.threadTs>>

Watermark(lt, tlc, src) ==
  IF src[2] = 0 THEN lt ELSE lastCheckedOf(tlc, src[1], src[2])

\* a fetch of tick t failed: the source, with its watermark when t started
Failure(l) ==
  [src |-> Source(l), start |-> Watermark(l.startTs, l.startChecked, Source(l))]

\* what is kept of an invocation that returned: the sources it fetched, the
\* threads it captured, the fetches that failed with the watermark of their
\* source at the start and at the end of the tick, and whether a post failed
Summary(st) ==
  [polled |-> st.l.polled, captured |-> st.l.captured,
   failed |-> {[src |-> f.src, start |-> f.start,
                end |-> Watermark(st.lastTimestamp, st.threadLastChecked, f.src)] :
               f \in st.l.failed},
   postFailed |-> st.l.postFailed]

Pack(l, x) ==
  [processedMessages |-> processedMessages, heap |-> heap,
   threadSessions |-> threadSessions, threadLastChecked |-> threadLastChecked,
   lastTimestamp |-> lastTimestamp, nextSid |-> nextSid, trace |-> trace,
   execLog |-> execLog, lastDone |-> lastDone, x |-> x, audit |-> audit,
   l |-> [l EXCEPT !.pc = "run"]]

Commit(l, st) ==
  /\ processedMessages' = st.processedMessages
  /\ heap' = st.heap
  /\ threadSessions' = st.threadSessions
  /\ threadLastChecked' = st.threadLastChecked
  /\ lastTimestamp' = st.lastTimestamp
  /\ nextSid' = st.nextSid
  /\ trace' = st.trace
  /\ execLog' = st.execLog
  /\ lastDone' = st.lastDone
  /\ ticks' = (ticks (-) SetToBag({l})) (+)
                 (IF st.l.pc = "done" THEN EmptyBag ELSE SetToBag({st.l}))
  /\ doneTicks' = IF st.l.pc = "done" THEN doneTicks \cup {Summary(st)} ELSE doneTicks

(***************************************************************************)
(* The users of the chat platform.                                         *)
(***************************************************************************)
TCmd == Trigger \o <<" ", "d", " ", "x">>
TGhost == Trigger \o <<" ", "g", " ", "x">>
TPlain == <<"x">>
TMentionOnly == <<"<", "@", "B", "0", ">">>
NoFiles == <<>>
TProto == Trigger \o <<" ">> \o ProtoConstructor \o <<" ", "x">>
OneImage == <<[mimetype |-> MimeJpeg, url_private |-> TRUE]>>

\* What the users post during a run: one of these scripts, chosen at the
\* start (script is its number), of which the first MaxUserMsgs entries can
\* be posted, in order and at any moment.  root is the position in the script
\* of the thread's root message, 0 for a top-level message.
Template(ch, root, text, files) ==
  [ch |-> ch, root |-> root, text |-> text, files |-> files, same |-> FALSE,
   user |-> UserId]
\* a top-level message that the platform stamps with the timestamp of the
\* message posted just before it in another channel (a timestamp is unique
\* within a channel only)
TemplateSameTs(ch, text, files) ==
  [ch |-> ch, root |-> 0, text |-> text, files |-> files, same |-> TRUE,
   user |-> UserId]
\* a top-level message written under the identity of the bot (message.user
\* is botUserId), such as one another program posts with the bot's token
TemplateBot(ch, text) ==
  [ch |-> ch, root |-> 0, text |-> text, files |-> NoFiles, same |-> FALSE,
   user |-> botUserId]

Scripts ==
  << <<Template("C1", 0, TCmd, OneImage), Template("C1", 1, TPlain, NoFiles),
       Template("C1", 1, TPlain, NoFiles)>>,
     <<Template("C2", 0, TCmd, NoFiles), Template("C1", 0, TGhost, NoFiles),
       Template("C1", 0, TPlain, NoFiles), Template("C2", 0, TPlain, NoFiles)>>,
     <<Template("C2", 0, TCmd, NoFiles), Template("C2", 1, TMentionOnly, NoFiles),
       Template("C2", 1, TPlain, NoFiles)>>,
     <<Template("C1", 0, TCmd, NoFiles), TemplateSameTs("C2", TCmd, NoFiles)>>,
     <<Template("C1", 0, TProto, NoFiles)>>,
     <<TemplateBot("C1", TCmd), Template("C1", 0, TCmd, NoFiles)>> >>

CanPost == userMsgs < MaxUserMsgs /\ userMsgs < Len(Scripts[script])
NextTemplate == Scripts[script][userMsgs + 1]

\* the timestamp of the next top-level message: the next instant, or the
\* instant of the previous message when nothing was posted since
StampOf(template) == IF template.same THEN now ELSE now + 1

UserPostTop ==
  /\ CanPost
  /\ NextTemplate.root = 0
  /\ NextTemplate.same => posted # <<>> /\ posted[Len(posted)] = now
  /\ slack' = slack \cup {[ch |-> NextTemplate.ch, ts |-> StampOf(NextTemplate),
                           thread |-> 0,
                           user |-> NextTemplate.user, text |-> NextTemplate.text,
                           files |-> NextTemplate.files]}
  /\ posted' = Append(posted, StampOf(NextTemplate))
  /\ now' = StampOf(NextTemplate)
  /\ userMsgs' = userMsgs + 1
  /\ UNCHANGED <<script, audit, input, output, processedMessages, heap, threadSessions, threadLastChecked,
                 lastTimestamp, ticks, doneTicks, fired, failures, nextSid, trace, execLog,
                 lastDone>>

UserPostReply ==
  /\ CanPost
  /\ NextTemplate.root # 0
  /\ slack' = slack \cup {[ch |-> NextTemplate.ch, ts |-> now + 1,
                           thread |-> posted[NextTemplate.root],
                           user |-> NextTemplate.user, text |-> NextTemplate.text,
                           files |-> NextTemplate.files]}
  /\ posted' = Append(posted, now + 1)
  /\ now' = now + 1
  /\ userMsgs' = userMsgs + 1
  /\ UNCHANGED <<script, audit, input, output, processedMessages, heap, threadSessions, threadLastChecked,
                 lastTimestamp, ticks, doneTicks, fired, failures, nextSid, trace, execLog,
                 lastDone>>

(***************************************************************************)
(* Initial state: the state after `new SlackClaudeBot(config)` and         *)
(* start(); lastTimestamp is the time of construction, before every        *)
(* message of the run.                                                     *)
(***************************************************************************)
Init ==
  /\ slack = {}
  /\ now = 0
  /\ script \in 1..Len(Scripts)
  /\ audit = FALSE
  /\ posted = <<>>
  /\ processedMessages = {}
  /\ heap = <<>>
  /\ threadSessions = <<>>
  /\ threadLastChecked = EmptyFn
  /\ lastTimestamp = 0
  /\ ticks = EmptyBag
  /\ doneTicks = {}
  /\ fired = 0
  /\ failures = 0
  /\ userMsgs = 0
  /\ nextSid = 1
  /\ trace = EmptyFn
  /\ execLog = {}
  /\ lastDone = EmptyFn
  /\ input = NoInput
  /\ output = NoOutput

(***************************************************************************)
(* The timer: setInterval(() => this.poll(), interval) (lines 103-108).    *)
(***************************************************************************)
startPolling ==
  /\ fired < MaxTicks
  /\ Commit(IdleTick, poll(Pack(IdleTick, "ok")))
  /\ fired' = fired + 1
  /\ UNCHANGED <<slack, now, script, posted, audit, input, output, failures, userMsgs>>

(***************************************************************************)
(* Completion of the awaited Slack calls.                                  *)
(***************************************************************************)
\* getChannelHistory resolves (lines 133-137)
HistoryOk(l) ==
  /\ l.pc = "history"
  /\ LET messages == getChannelHistory(channelIds[l.ci], l.oldest)
         st == Pack(l, "ok")
     IN Commit(l, messageLoop([st EXCEPT !.l.batch = messages,
                                         !.l.latest = latestTs(messages),
                                         !.l.oldest = 0]))
  /\ UNCHANGED <<slack, now, script, posted, audit, input, output, fired, failures, userMsgs>>

\* getChannelHistory rejects: pollChannel throws into the catch of poll
HistoryFail(l) ==
  /\ l.pc = "history"
  /\ failures < MaxFailures
  /\ LET st == Pack(l, "ok")
     IN Commit(l, finish(noteFailed(st, Failure(l))))
  /\ failures' = failures + 1
  /\ UNCHANGED <<slack, now, script, posted, audit, input, output, fired, userMsgs>>

\* getThreadReplies resolves (lines 164-179)
RepliesOk(l) ==
  /\ l.pc = "replies"
  /\ LET channelId == channelIds[l.ci]
         threadTs == l.thread.threadTs
         replies == getThreadReplies(channelId, threadTs, l.oldest)
         st == Pack(l, "ok")
         st1 == IF replies # <<>>
                  THEN [st EXCEPT !.threadLastChecked =
                          MapSet(@, getSessionKey(channelId, threadTs), latestTs(replies))]
                  ELSE st
     IN Commit(l, replyLoop([st1 EXCEPT !.l.batch = replies, !.l.oldest = 0]))
  /\ UNCHANGED <<slack, now, script, posted, audit, input, output, fired, failures, userMsgs>>

\* getThreadReplies rejects: caught inside the loop (lines 180-182)
RepliesFail(l) ==
  /\ l.pc = "replies"
  /\ failures < MaxFailures
  /\ LET st == Pack(l, "ok")
     IN Commit(l, threadLoop(noteFailed([st EXCEPT !.l.oldest = 0], Failure(l))))
  /\ failures' = failures + 1
  /\ UNCHANGED <<slack, now, script, posted, audit, input, output, fired, userMsgs>>

PostPcs == {"post_nf", "post_ack", "post_result"}

\* the message the bot posted becomes a message of the thread; the bot
\* tests the author of a message before it reads the text, so one text
\* stands for the acknowledgment, the "not found" notice and the result
BotText == <<"o", "k">>
BotMessage(l) ==
  [ch |-> channelIds[l.ci], ts |-> now + 1,
   thread |-> IF l.thread # NoThread THEN l.thread.threadTs
              ELSE l.msg.ts,
   user |-> botUserId, text |-> BotText, files |-> NoFiles]

afterPost(st) ==
  IF st.l.pc = "post_nf" THEN messageLoop(ClearHandler(st))
  ELSE IF st.l.pc = "post_ack"
    THEN downloadLoop([st EXCEPT !.l.pc = "run", !.l.files = st.l.msg.files])
  ELSE IF st.l.thread = NoThread
    THEN messageLoop(ClearHandler(saveSession(st)))
  ELSE replyLoop(ClearHandler(noteDone(updateSessionId(st), st.l.result)))

\* postMessage resolves
PostOk(l) ==
  /\ l.pc \in PostPcs
  /\ \E x \in ExecOutcomes :
       Commit(l, afterPost([Pack(l, x) EXCEPT !.l.pc = l.pc]))
  /\ slack' = slack \cup {BotMessage(l)}
  /\ now' = now + 1
  /\ UNCHANGED <<script, posted, audit, input, output, fired, failures, userMsgs>>

\* postMessage rejects: handleMessage throws into the catch of poll,
\* handleThreadReply into the catch of pollActiveThreads
PostFail(l) ==
  /\ l.pc \in PostPcs
  /\ failures < MaxFailures
  /\ LET st == notePostFailed(Pack(l, "ok"))
     IN IF l.thread = NoThread
          THEN Commit(l, finish(st))
          ELSE Commit(l, threadLoop([ClearHandler(st) EXCEPT !.l.batch = <<>>]))
  /\ failures' = failures + 1
  /\ UNCHANGED <<slack, now, script, posted, audit, input, output, fired, userMsgs>>

\* downloadImage resolves
DownloadOk(l) ==
  /\ l.pc = "download"
  /\ \E x \in ExecOutcomes :
       Commit(l, downloadLoop([Pack(l, x) EXCEPT !.l.images = @ + 1]))
  /\ UNCHANGED <<slack, now, script, posted, audit, input, output, fired, failures, userMsgs>>

\* downloadImage rejects: logged, the image is dropped
DownloadFail(l) ==
  /\ l.pc = "download"
  /\ failures < MaxFailures
  /\ \E x \in ExecOutcomes : Commit(l, downloadLoop(Pack(l, x)))
  /\ failures' = failures + 1
  /\ UNCHANGED <<slack, now, script, posted, audit, input, output, fired, userMsgs>>

Next ==
  \/ UserPostTop
  \/ UserPostReply
  \/ startPolling
  \/ \E l \in BagToSet(ticks) : HistoryOk(l)
  \/ \E l \in BagToSet(ticks) : HistoryFail(l)
  \/ \E l \in BagToSet(ticks) : RepliesOk(l)
  \/ \E l \in BagToSet(ticks) : RepliesFail(l)
  \/ \E l \in BagToSet(ticks) : PostOk(l)
  \/ \E l \in BagToSet(ticks) : PostFail(l)
  \/ \E l \in BagToSet(ticks) : DownloadOk(l)
  \/ \E l \in BagToSet(ticks) : DownloadFail(l)

Spec == Init /\ [][Next]_vars

\* the same program, with the record of each tick kept
InitAudit ==
  /\ slack = {}
  /\ now = 0
  /\ script \in 1..Len(Scripts)
  /\ audit = TRUE
  /\ posted = <<>>
  /\ processedMessages = {}
  /\ heap = <<>>
  /\ threadSessions = <<>>
  /\ threadLastChecked = EmptyFn
  /\ lastTimestamp = 0
  /\ ticks = EmptyBag
  /\ doneTicks = {}
  /\ fired = 0
  /\ failures = 0
  /\ userMsgs = 0
  /\ nextSid = 1
  /\ trace = EmptyFn
  /\ execLog = {}
  /\ lastDone = EmptyFn
  /\ input = NoInput
  /\ output = NoOutput

SpecAudit == InitAudit /\ [][Next]_vars

(***************************************************************************)
(* The program under fair scheduling, with Slack calls that succeed: the   *)
(* timer fires again and again (setInterval never stops) whether or not an *)
(* earlier invocation of poll() is still in flight, and every awaited call *)
(* resolves.  The invocations in flight at a time are capped at MaxTicks.  *)
(***************************************************************************)
\* an invocation of poll() in flight is told from the others by id
Invocation(i) == [IdleTick EXCEPT !.id = i]
InFlight(i) == \E l \in BagToSet(ticks) : l.id = i

timerFires ==
  /\ \E i \in 1..MaxTicks :
       /\ ~InFlight(i)
       /\ \A g \in 1..(i - 1) : InFlight(g)
       /\ Commit(Invocation(i), poll(Pack(Invocation(i), "ok")))
  /\ UNCHANGED <<slack, now, script, posted, audit, input, output, fired, failures, userMsgs>>

\* a step in which the awaited call of invocation i resolves: the steps of
\* NextFair that take it out of its await
Returns(i) == \E l \in BagToSet(ticks) : l.id = i /\ l \notin BagToSet(ticks')

NextFair ==
  \/ UserPostTop
  \/ UserPostReply
  \/ timerFires
  \/ \E l \in BagToSet(ticks) : HistoryOk(l)
  \/ \E l \in BagToSet(ticks) : RepliesOk(l)
  \/ \E l \in BagToSet(ticks) : PostOk(l)
  \/ \E l \in BagToSet(ticks) : DownloadOk(l)

\* the event loop runs every timer callback and every resolved promise.
\* The second conjunct is WF_vars(Returns(i)) written out for every
\* invocation: its call can resolve exactly while it is in flight.
Fairness ==
  /\ WF_vars(timerFires)
  /\ \A i \in 1..MaxTicks : []<>(~InFlight(i)) \/ []<><<Returns(i)>>_vars

SpecFair == Init /\ [][NextFair]_vars /\ Fairness

(***************************************************************************)
(* The parser, the decoder and the execution adapter on their own: an      *)
(* input is drawn, the function is applied to it once, and output holds    *)
(* what it returned.                                                       *)
(***************************************************************************)
MaxTail == 3
MaxLines == 3

SeqsUpTo(S, n) == UNION {[1..k -> S] : k \in 0..n}

\* a text given to the parser is one of these beginnings followed by up to
\* MaxTail of these pieces
Mention == <<"<", "@", "B", "0", ">">>
Beginnings ==
  {<<>>, Trigger, Trigger \o <<" ">>, Trigger \o <<"x">>, Trigger \o <<" ", "x">>,
   Trigger \o <<" ", "x", " ">>, Trigger \o <<"\n", "\n", "x", "\n">>,
   <<" ">> \o Trigger \o <<" ", "d", " ">>, <<"x">> \o Trigger \o <<" ">>,
   Mention, <<"<", "@">>, <<"<">>}
Pieces == {<<" ">>, <<"\n">>, <<"\t">>, <<"d">>, <<">">>, Mention}
DefaultProjects == {<<>>, ProjectD}   \* <<>>: the channel has no default project

FileA == PathText \o <<"/", "a">>
FileB == <<"/", "t", "m", "p", "/", "b">>
TypeUpdate == <<"u", "p", "d", "a", "t", "e">>

\* ---- attachments of a message (command-parser.ts, extractImageUrls) ----
MaxFiles == 2

MimeText == <<"t", "e", "x", "t", "/", "p", "l", "a", "i", "n">>
UrlA == <<"h", ":", "a">>
UrlB == <<"h", ":", "b">>
UrlC == <<"h", ":", "c">>
\* <<>> stands for a field that is undefined (or the empty string, which
\* JavaScript treats alike in both tests of extractImageUrls)
SlackFile(mimetype, url_private) == [mimetype |-> mimetype, url_private |-> url_private]
FileVocabulary ==
  {SlackFile(MimePng, UrlA), SlackFile(MimeJpeg, UrlB), SlackFile(MimePng, <<>>),
   SlackFile(MimeText, UrlC), SlackFile(<<>>, UrlC)}

Undefined == [defined |-> FALSE, urls |-> <<>>]
Defined(urls) == [defined |-> TRUE, urls |-> urls]

mimeIsImage(file) == StartsWith(file.mimetype, ImagePrefix)
hasUrl(file) == file.url_private # <<>>

\* message.files is undefined when hasFiles is FALSE
extractImageUrls(message) ==
  IF ~message.hasFiles \/ Len(message.files) = 0 THEN Undefined
  ELSE LET imageFiles == SelectSeq(message.files, mimeIsImage)
       IN IF Len(imageFiles) = 0 THEN Undefined
          ELSE LET withUrl == SelectSeq(imageFiles, hasUrl)
               IN Defined([i \in 1..Len(withUrl) |-> withUrl[i].url_private])

Messages ==
  {[hasFiles |-> FALSE, files |-> <<>>]}
  \cup {[hasFiles |-> TRUE, files |-> fs] : fs \in SeqsUpTo(FileVocabulary, MaxFiles)}

\* ---- startup (loader.ts loadConfig, part_000 main and start) ----
\* a value of the configuration file is a literal text or a reference ${VAR}
Literal(text) == [ref |-> FALSE, text |-> text]
EnvRef == [ref |-> TRUE, text |-> <<>>]
TokenText == <<"x", "o", "x", "b">>
\* what process.env holds for VAR: unset, the empty string or a token
EnvUnset == [set |-> FALSE, text |-> <<>>]
EnvSet(text) == [set |-> TRUE, text |-> text]
Environments == {EnvUnset, EnvSet(<<>>), EnvSet(TokenText)}

\* an unset variable is replaced by the empty string
expandEnvVars(value, env) ==
  IF value.ref THEN (IF env.set THEN env.text ELSE <<>>) ELSE value.text

ProjectE == <<"e">>
\* exists: config.yaml is there; slack, token, projects: the key is present
ConfigFiles ==
  {[exists |-> ex, slack |-> sl, token |-> tk, botToken |-> bt,
    projects |-> pr, names |-> ns] :
     ex \in BOOLEAN, sl \in BOOLEAN, tk \in BOOLEAN,
     bt \in {Literal(<<>>), Literal(TokenText), EnvRef},
     pr \in BOOLEAN, ns \in SUBSET {ProjectD, ProjectE}}

\* outcome of auth.test(): ok, ok: false, or a rejected promise
ConnectionTests == {"ok", "not_ok", "throws"}

Thrown == [threw |-> TRUE, botToken |-> <<>>, names |-> {}]
Loaded(botToken, names) == [threw |-> FALSE, botToken |-> botToken, names |-> names]

botTokenOf(file, env) ==
  IF file.slack /\ file.token THEN expandEnvVars(file.botToken, env) ELSE <<>>
hasProjectsMutant(file) == TRUE
hasProjects(file) == file.projects /\ file.names # {}

loadConfig(file, env) ==
  IF ~file.exists THEN Thrown
  ELSE IF botTokenOf(file, env) = <<>> THEN Thrown
  ELSE IF ~hasProjects(file) THEN Thrown
  ELSE Loaded(botTokenOf(file, env), file.names)

\* the state of the process during startup: timer is the setInterval of
\* startPolling, exitCode the argument of process.exit
Exited(code) == [fn |-> "main", phase |-> "exited", timer |-> FALSE, exitCode |-> code]
Testing == [fn |-> "main", phase |-> "testing", timer |-> FALSE, exitCode |-> 0]
Polling == [fn |-> "main", phase |-> "polling", timer |-> TRUE, exitCode |-> 0]

\* ---- mutations handed to formatFileOperations ----
\* a file of a directory whose name begins like the project root, and the
\* project root itself
FileSibling == PathText \o <<"2", "/", "a">>
FileOperation(type, filePath) == [type |-> type, filePath |-> filePath]
FileOperations ==
  {FileOperation(t, f) : t \in {TypeCreate, TypeEdit, TypeDelete, TypeUnknown},
                         f \in {FileA, FileB, FileSibling, PathText}}

LineVocabulary ==
  {ResultLine(<<"a">>, 1), ResultLine(<<"b">>, 2), ResultLine(<<"a">>, 0),
   ResultLine(<<>>, 1),
   ToolLine(TypeCreate, FileA), ToolLine(TypeUpdate, FileB), ToolLine(<<>>, FileA),
   ToolLine(TypeEdit, <<>>),
   OtherLine, BadLine(<<"n", "o", "t", " ", "j", "s", "o", "n">>), NullLine, BlankLine}

LongLengths == {Budget - 1, Budget, Budget + 1, 5000}

Stdouts ==
  {<<>>, <<ResultLine(<<"a">>, 1)>>, <<ResultLine(<<>>, 1)>>, <<OtherLine>>,
   <<ToolLine(TypeCreate, FileA), ResultLine(<<"a">>, 1)>>,
   <<ToolLine(TypeUpdate, FileB), OtherLine>>,
   <<ToolLine(TypeCreate, FileA), ToolLine(TypeDelete, FileB)>>,
   <<ToolLine(ProtoConstructor, FileA)>>}
  \cup {<<ResultLine(Rep("a", n), 1)>> : n \in LongLengths}
  \cup {<<ToolLine(TypeEdit, FileA), ResultLine(Rep("a", n), 1)>> : n \in LongLengths}
  \cup {<<ToolLine(TypeEdit, FileA), BadLine(Rep("x", n))>> : n \in LongLengths}

Stderrs == {<<>>, <<"b", "o", "o", "m">>}
\* the message of the Error execSync throws is never empty
ErrorMessage == <<"C", "o", "m", "m", "a", "n", "d", " ", "f", "a", "i", "l", "e", "d">>

Processes ==
  {[exit |-> e, stdout |-> IF e = "launch" THEN <<>> ELSE o,
    stderr |-> IF e = "ok" THEN <<>> ELSE err,
    message |-> IF e = "ok" THEN <<>> ELSE ErrorMessage] :
     e \in ProcessExits, o \in Stdouts, err \in Stderrs}

Inputs ==
  {[fn |-> "parseCommand", text |-> b \o Join(tail, <<>>), defaultProject |-> dp] :
     b \in Beginnings, tail \in SeqsUpTo(Pieces, MaxTail), dp \in DefaultProjects}
  \cup {[fn |-> "parseStreamJsonOutput", rawOutput |-> lines] :
          lines \in SeqsUpTo(LineVocabulary, MaxLines)}
  \cup {[fn |-> "execute", proc |-> p] : p \in Processes}
  \cup {[fn |-> "extractImageUrls", message |-> m] : m \in Messages}
  \cup {[fn |-> "formatFileOperations", files |-> fs, projectPath |-> PathText] :
          fs \in SeqsUpTo(FileOperations, MaxFiles)}
  \cup {[fn |-> "main", file |-> f, env |-> e, connection |-> c] :
          f \in ConfigFiles, e \in Environments, c \in ConnectionTests}

applyParseCommand ==
  /\ input.fn = "parseCommand" /\ output = NoOutput
  /\ output' = [fn |-> "parseCommand",
                command |-> parseCommand(input.text, input.defaultProject)]
  /\ UNCHANGED botVars /\ UNCHANGED input

applyParseStreamJsonOutput ==
  /\ input.fn = "parseStreamJsonOutput" /\ output = NoOutput
  /\ output' = [fn |-> "parseStreamJsonOutput",
                parsed |-> parseStreamJsonOutput(input.rawOutput)]
  /\ UNCHANGED botVars /\ UNCHANGED input

\* the execution and the reply composed from its result
applyExecute ==
  /\ input.fn = "execute" /\ output = NoOutput
  /\ LET result == executeClaudeCodeWithSession(input.proc)
     IN output' = [fn |-> "execute", result |-> result,
                   text |-> responseText(result, PathText)]
  /\ UNCHANGED botVars /\ UNCHANGED input

\* parseCommand returns imageUrls: extractImageUrls(message) in both grammars
applyExtractImageUrls ==
  /\ input.fn = "extractImageUrls" /\ output = NoOutput
  /\ output' = [fn |-> "extractImageUrls", imageUrls |-> extractImageUrls(input.message)]
  /\ UNCHANGED botVars /\ UNCHANGED input

applyFormatFileOperations ==
  /\ input.fn = "formatFileOperations" /\ output = NoOutput
  /\ output' = [fn |-> "formatFileOperations",
                text |-> formatFileOperations(input.files, input.projectPath)]
  /\ UNCHANGED botVars /\ UNCHANGED input

\* main up to the first await: loadConfig, the constructor, and start up to
\* the call of testConnection; an exception goes to the catch of main
main ==
  /\ input.fn = "main" /\ output = NoOutput
  /\ output' = IF loadConfig(input.file, input.env).threw THEN Exited(1) ELSE Testing
  /\ UNCHANGED botVars /\ UNCHANGED input

\* start after the await of testConnection
start ==
  /\ input.fn = "main" /\ output = Testing
  /\ output' = IF input.connection = "ok" THEN Polling ELSE Exited(1)
  /\ UNCHANGED botVars /\ UNCHANGED input

\* the coordinator is in its state of construction and no timer runs
InitPure ==
  /\ slack = {}
  /\ now = 0
  /\ script = 1
  /\ audit = FALSE
  /\ posted = <<>>
  /\ processedMessages = {}
  /\ heap = <<>>
  /\ threadSessions = <<>>
  /\ threadLastChecked = EmptyFn
  /\ lastTimestamp = 0
  /\ ticks = EmptyBag
  /\ doneTicks = {}
  /\ fired = 0
  /\ failures = 0
  /\ userMsgs = 0
  /\ nextSid = 1
  /\ trace = EmptyFn
  /\ execLog = {}
  /\ lastDone = EmptyFn
  /\ input \in Inputs
  /\ output = NoOutput

NextPure ==
  \/ applyParseCommand
  \/ applyParseStreamJsonOutput
  \/ applyExecute
  \/ applyExtractImageUrls
  \/ applyFormatFileOperations
  \/ main
  \/ start

SpecPure == InitPure /\ [][NextPure]_vars



(***************************************************************************)
(* Properties.                                                             *)
(***************************************************************************)
Has(k, op) == k \in DOMAIN trace /\ Count(trace[k], op) >= 1
SideEffects == {"post_nf", "post_ack", "download", "exec", "post_result"}
ActiveTicks == BagToSet(ticks)
InHandler(l) == l.pc \in PostPcs \cup {"download"}

\* C1: the routing sequence of a message (the routing decision, the
\* acknowledgment or not-found post, the execution, the result post) is
\* started at most once, however many times the message is fetched and
\* however the ticks that fetch it overlap.
C1_RoutedAtMostOnce ==
  \A k \in DOMAIN trace :
    \A op \in {"route", "post_nf", "post_ack", "exec", "post_result"} :
      Count(trace[k], op) <= 1

\* a message has been routed by one tick while a second, overlapping tick is
\* handling another message of a batch that holds the first one too: the two
\* ticks fetched the same window
C1_Witness ==
  \E l1 \in ActiveTicks, l2 \in ActiveTicks :
    /\ InHandler(l1) /\ InHandler(l2)
    /\ l1.msg # l2.msg
    /\ Count(trace[MsgKey(l1.msg)], "route") = 1
    /\ \E i \in 1..Len(l2.batch) : l2.batch[i] = l1.msg

\* C2: at no time are two ticks active.
C2_TicksSerialized == BagCardinality(ticks) <= 1

\* C3: the id of a routed message is in the ledger before the first post,
\* download or execution done for it: a tick suspended inside a handler has
\* its message in the ledger, and in the history of a message the insertion
\* comes before every side effect.
C3_MarkedBeforeSideEffects ==
  /\ \A l \in ActiveTicks : InHandler(l) => l.msg.ts \in processedMessages
  /\ \A k \in DOMAIN trace :
       \A i \in 1..Len(trace[k]) :
         trace[k][i].op \in SideEffects =>
           /\ k[2] \in processedMessages
           /\ \E j \in 1..(i - 1) : trace[k][j].op = "seen"

\* a tick is suspended at the first post made for a message
C3_Witness ==
  \E l \in ActiveTicks :
    /\ l.pc \in {"post_ack", "post_nf"}
    /\ l.msg.ts \in processedMessages
    /\ Has(MsgKey(l.msg), "post_ack") \/ Has(MsgKey(l.msg), "post_nf")


\* C4: when the handling of a reply r2 starts after the handling of the
\* previous reply r1 of the thread has finished (its result is posted and its
\* session id written back), r1 returned a session id, and no other reply of
\* the thread has written one since, r2 is executed with r1's session id as
\* resume target (session ids are fresh, so this is not the id of creation).
C4_ResumesPreviousReply ==
  \A e \in execLog :
    (e.thread # 0 /\ e.prev # 0 /\ e.cur = e.prev) => e.resume = e.prev

\* the second of two replies handled one after the other has been executed
C4_Witness ==
  \E e \in execLog :
    /\ e.thread # 0 /\ e.prev # 0 /\ e.cur = e.prev /\ e.resume = e.prev
    /\ \E e1 \in execLog : e1.thread = e.thread /\ e1.sid = e.prev /\ e1.msg # e.msg

\* C5: no two reply handlers of the same thread are in progress at the same
\* time.
ReplyHandlers(c, threadTs) ==
  {l \in ActiveTicks : /\ InHandler(l)
                       /\ l.thread # NoThread
                       /\ channelIds[l.ci] = c
                       /\ l.thread.threadTs = threadTs}

C5_OneHandlerPerThread ==
  \A i \in 1..Len(threadSessions) :
    Cardinality(ReplyHandlers(threadSessions[i].key[1], threadSessions[i].key[2])) <= 1

\* C6: the watermark of a channel and the watermark of a thread never
\* decrease.
C6_WatermarksNeverDecrease ==
  [][/\ lastTimestamp' >= lastTimestamp
     /\ \A k \in DOMAIN threadLastChecked :
          threadLastChecked'[k] >= threadLastChecked[k]]_vars

\* C7: a step of a tick that is polling channel A leaves the lower bound of
\* the next history fetch of every other channel unchanged.
ChannelWatermark(c) == lastTimestamp

PollChannelStep(l) ==
  /\ l.thread = NoThread
  /\ CopiesIn(l, ticks') < CopiesIn(l, ticks)

C7_PerChannelWatermark ==
  [][\A l \in ActiveTicks :
       PollChannelStep(l) =>
         \A c \in Channels \ {channelIds[l.ci]} :
           ChannelWatermark(c)' = ChannelWatermark(c)]_vars

\* C8 (of SpecAudit, where ticks keep their record): a tick in which a fetch
\* failed (and no post failed) has still polled every configured channel and
\* every thread it found active.
C8_FetchFailureIsolated ==
  \A d \in doneTicks :
    (d.failed # {} /\ ~d.postFailed) =>
      /\ \A c \in Channels : <<c, 0>> \in d.polled
      /\ d.captured \subseteq d.polled

\* C9 (of SpecAudit): the watermark of a source whose fetch failed in a tick
\* is the same at the end of the tick as at its start.
C9_FailedSourceWatermarkKept ==
  \A d \in doneTicks : \A f \in d.failed : f.end = f.start

\* C10: a top-level command whose project is not configured gets exactly one
\* "project not found" post, in its own thread, and nothing else: no
\* acknowledgment, no download, no execution, no result post; its id is in
\* the ledger; no session and no thread watermark exist for it.
UnknownProjectCommands ==
  {m \in slack :
     /\ m.thread = 0
     /\ m.user # botUserId
     /\ parseCommand(m.text, ConfigChannelDefault(m.ch)).ok
     /\ parseCommand(m.text, ConfigChannelDefault(m.ch)).projectName \notin ConfigProjects
     /\ Has(MsgKey(m), "route")}

C10_UnknownProject ==
  \A m \in UnknownProjectCommands :
    /\ Count(trace[MsgKey(m)], "post_nf") = 1
    /\ \A i \in 1..Len(trace[MsgKey(m)]) :
         trace[MsgKey(m)][i].op = "post_nf" => trace[MsgKey(m)][i].arg = m.ts
    /\ \A op \in {"post_ack", "download", "exec", "post_result", "session"} :
         Count(trace[MsgKey(m)], op) = 0
    /\ \A e \in execLog : e.msg # MsgKey(m)
    /\ m.ts \in processedMessages
    /\ SessionIndex(threadSessions, getSessionKey(m.ch, m.ts)) = 0
    /\ getSessionKey(m.ch, m.ts) \notin DOMAIN threadLastChecked

\* C11: a message written by the bot, top-level or in a thread (its own
\* acknowledgments, notices and results, which are fetched back as replies
\* of the thread, included), is in the ledger once a handler was called on
\* it, and nothing else is ever done for it: no routing, no post, no
\* download, no execution, and no post of the bot in reply to it.
BotMessages == {m \in slack : m.user = botUserId}

C11_BotMessagesIgnored ==
  \A m \in BotMessages :
    /\ \A e \in execLog : e.msg # MsgKey(m)
    /\ MsgKey(m) \in DOMAIN trace =>
         \A i \in 1..Len(trace[MsgKey(m)]) : trace[MsgKey(m)][i].op \in {"handed", "seen"}
    /\ Has(MsgKey(m), "handed") => m.ts \in processedMessages
    /\ \A l \in ActiveTicks : InHandler(l) => l.msg # m
    /\ m.thread = 0 => \A b \in slack : ~(b.ch = m.ch /\ b.thread = m.ts)

\* the handler of top-level messages was called on a command text written
\* by the bot, and the handler of replies on a reply written by the bot in a
\* thread that has a session
C11_Witness ==
  /\ \E m \in BotMessages :
       /\ m.thread = 0 /\ parseCommand(m.text, ConfigChannelDefault(m.ch)).ok
       /\ Has(MsgKey(m), "handed")
  /\ \E m \in BotMessages :
       /\ m.thread # 0 /\ Has(MsgKey(m), "handed")
       /\ SessionIndex(threadSessions, getSessionKey(m.ch, m.thread)) # 0

\* C12: a session exists for (channel, thread) exactly when a top-level
\* command rooted at that thread was handed to the execution adapter.  The
\* handler that is still at work on the command is given the time to finish:
\* the equivalence is asked for the commands no tick is handling.
Dispatched ==
  {k \in DOMAIN trace : Count(trace[k], "exec") >= 1 /\ \A m \in slack : MsgKey(m) = k => m.thread = 0}

BeingHandled == {MsgKey(l.msg) : l \in {t \in ActiveTicks : InHandler(t)}}

C12_SessionIffDispatched ==
  /\ \A i \in 1..Len(threadSessions) : threadSessions[i].key \in Dispatched
  /\ \A k \in Dispatched \ BeingHandled :
       SessionIndex(threadSessions, getSessionKey(k[1], k[2])) # 0

Contains(text, sub) ==
  \E i \in 0..(Len(text) - Len(sub)) : SubSeq(text, i + 1, i + Len(sub)) = sub
EndsWith(text, sub) ==
  Len(text) >= Len(sub) /\ SubSeq(text, Len(text) - Len(sub) + 1, Len(text)) = sub

\* C13 (of SpecPure): the text handed to postMessage after an execution is
\* at most Budget characters long, the truncation marker included, and it
\* ends with the marker exactly when the composed text was longer than the
\* budget.
C13_ReplyWithinBudget ==
  output.fn = "execute" =>
    /\ Len(output.text) <= Budget
    /\ EndsWith(output.text, Marker) <=> Len(composed(output.result, PathText)) > Budget

\* C14 (of SpecPure): the decoder returns the text and the session id of the
\* last line of type "result", and no text and no session id when there is
\* no such line.
ResultLines(lines) ==
  {i \in 1..Len(lines) : lines[i].json.kind = "object" /\ lines[i].json.isResult}

C14_LastResultWins ==
  output.fn = "parseStreamJsonOutput" =>
    LET lines == input.rawOutput
    IN IF ResultLines(lines) = {}
         THEN output.parsed.result = <<>> /\ output.parsed.sessionId = 0
         ELSE LET last == lines[SetMax(ResultLines(lines))].json
              IN /\ output.parsed.result = last.result
                 /\ output.parsed.sessionId = last.session_id

\* an output with two result records that differ in text and session id, and
\* another line between them, was decoded
C14_Witness ==
  /\ output.fn = "parseStreamJsonOutput"
  /\ Len(input.rawOutput) = 3
  /\ ResultLines(input.rawOutput) = {1, 3}
  /\ input.rawOutput[1].json.result # input.rawOutput[3].json.result
  /\ input.rawOutput[1].json.session_id # input.rawOutput[3].json.session_id
  /\ output.parsed.result = input.rawOutput[3].json.result

\* C15 (of SpecPure): decoding an output gives what decoding it without its
\* malformed lines gives: same text, same session id, same file mutations.
WellFormed(line) == JSONparse(line).ok

C15_MalformedLinesDiscarded ==
  output.fn = "parseStreamJsonOutput" =>
    output.parsed = parseStreamJsonOutput(SelectSeq(input.rawOutput, WellFormed))

\* a malformed line stood between a file mutation and a result record, and
\* both were decoded
C15_Witness ==
  /\ output.fn = "parseStreamJsonOutput"
  /\ Len(input.rawOutput) = 3
  /\ input.rawOutput[1].json.filePath # <<>>
  /\ ~WellFormed(input.rawOutput[2]) /\ Trim(input.rawOutput[2].text) # <<>>
  /\ input.rawOutput[3].json.isResult /\ input.rawOutput[3].json.result # <<>>
  /\ Len(output.parsed.modifiedFiles) = 1
  /\ output.parsed.result = input.rawOutput[3].json.result

\* C16 (of SpecPure): the decoder records one file mutation for every line
\* that carries a tool result with a file path, in line order, and its kind
\* is create, edit or delete when that is the declared type and unknown
\* otherwise.
CarriesFile(line) == line.json.kind = "object" /\ line.json.filePath # <<>>
KindOf(type) == IF type \in {TypeCreate, TypeEdit, TypeDelete} THEN type ELSE TypeUnknown

C16_KindsEnumerated ==
  output.fn = "parseStreamJsonOutput" =>
    LET carriers == SelectSeq(input.rawOutput, CarriesFile)
    IN output.parsed.modifiedFiles =
         [i \in 1..Len(carriers) |->
            [type |-> KindOf(carriers[i].json.turType),
             filePath |-> carriers[i].json.filePath]]

\* C17 (of SpecPure): the reply to an execution that failed after the CLI
\* wrote output starts with the error annotation and contains the error
\* text, the output, and the list entry of every file mutation decoded
\* from the output.
C17_FailureReplyComplete ==
  (output.fn = "execute" /\ input.proc.exit # "ok" /\ input.proc.stdout # <<>>) =>
    LET files == parseStreamJsonOutput(input.proc.stdout).modifiedFiles
    IN /\ StartsWith(output.text, ErrorPrefix)
       /\ Contains(output.text, errorText(input.proc.stderr, input.proc.message))
       /\ Contains(output.text, RawText(input.proc.stdout))
       /\ \A i \in 1..Len(files) : Contains(output.text, fileEntry(files[i], PathText))

\* C18 (of SpecPure): whatever the process did, the adapter returns a
\* result: a success exactly when the exit status was 0, and otherwise a
\* failure with an error text; and a reply is composed from it.
C18_ExecuteAlwaysReturns ==
  /\ (input.fn = "execute" /\ output = NoOutput) => ENABLED applyExecute
  /\ output.fn = "execute" =>
       /\ output.result.success <=> input.proc.exit = "ok"
       /\ ~output.result.success => output.result.error # <<>>
       /\ output.text # <<>>

\* the process was killed by the timeout, or could not be started, and wrote
\* nothing on its standard error
C18_Witness ==
  /\ output.fn = "execute"
  /\ input.proc.exit \in {"timeout", "launch"}
  /\ input.proc.stderr = <<>>
  /\ ~output.result.success

\* C19 (of SpecPure): a successful execution whose output has no final
\* answer text returns the placeholder, and the reply composed from any
\* execution is not empty.
C19_NoBlankReply ==
  output.fn = "execute" =>
    /\ output.text # <<>>
    /\ output.result.output # <<>> \/ ~output.result.success
    /\ (input.proc.exit = "ok" /\ parseStreamJsonOutput(input.proc.stdout).result = <<>>) =>
         output.result.output = Placeholder

\* the process succeeded and its output had no result record, or one with
\* an empty text
C19_Witness ==
  /\ output.fn = "execute"
  /\ input.proc.exit = "ok"
  /\ \A i \in ResultLines(input.proc.stdout) : input.proc.stdout[i].json.result = <<>>
  /\ output.text = Placeholder

\* C20 (of SpecPure): parseCommand returns what the two grammars say.  The
\* trimmed text t is a command of the first grammar when it splits as
\* trigger, white space, project (no white space), white space, body; it is
\* one of the second grammar when a default project is given, t begins with
\* "<@" and something other than white space follows its first ">".
AllWs(t, i, j) == \A n \in i..j : IsWs(t[n])
NoWs(t, i, j) == \A n \in i..j : ~IsWs(t[n])

PrimarySplits(t) ==
  {sp \in (1..Len(t)) \X (1..Len(t)) \X (1..Len(t)) :
     /\ Len(Trigger) < sp[1] /\ sp[1] < sp[2] /\ sp[2] < sp[3] /\ sp[3] < Len(t)
     /\ Take(t, Len(Trigger)) = Trigger
     /\ AllWs(t, Len(Trigger) + 1, sp[1])
     /\ NoWs(t, sp[1] + 1, sp[2])
     /\ AllWs(t, sp[2] + 1, sp[3])}

Reference(text0, defaultProject) ==
  LET t == Trim(text0)
  IN IF t = <<>> THEN NoCommand
     ELSE IF PrimarySplits(t) # {}
       THEN LET sp == CHOOSE x \in PrimarySplits(t) : TRUE
            IN [ok |-> TRUE, projectName |-> SubSeq(t, sp[1] + 1, sp[2]),
                prompt |-> Trim(SubSeq(t, sp[3] + 1, Len(t)))]
     ELSE IF /\ defaultProject # <<>>
             /\ Len(t) >= 2 /\ t[1] = "<" /\ t[2] = "@"
             /\ \E i \in 1..Len(t) : t[i] = ">" /\ \E j \in (i + 1)..Len(t) : ~IsWs(t[j])
       THEN LET close == SetMin({i \in 1..Len(t) : t[i] = ">"})
            IN [ok |-> TRUE, projectName |-> defaultProject,
                prompt |-> Trim(SubSeq(t, close + 1, Len(t)))]
     ELSE NoCommand

C20_ParseEqualsReference ==
  output.fn = "parseCommand" =>
    output.command = Reference(input.text, input.defaultProject)

\* a command of the first grammar with a body of several lines was parsed in
\* a channel that has a default project
C20_Witness ==
  /\ output.fn = "parseCommand"
  /\ input.defaultProject # <<>>
  /\ output.command.ok
  /\ output.command.projectName # input.defaultProject
  /\ Contains(output.command.prompt, <<"\n">>)


\* ---- C21 ----
Contributes(file) == mimeIsImage(file) /\ hasUrl(file)
ContributedUrls(files) ==
  LET contributing == SelectSeq(files, Contributes)
  IN [i \in 1..Len(contributing) |-> contributing[i].url_private]

\* C21: imageUrls holds exactly the private URLs of the attachments whose mime
\* type begins with image/ and that carry a private URL, in their order, and
\* it is undefined, never an empty list, when no attachment contributes a URL
C21_ImageUrlsExact ==
  output.fn = "extractImageUrls" =>
    LET expected == IF input.message.hasFiles
                    THEN ContributedUrls(input.message.files) ELSE <<>>
    IN /\ output.imageUrls.urls = expected
       /\ output.imageUrls.defined <=> expected # <<>>

\* ---- C22 ----
\* what the configuration holds, read off the file and the environment
Credential ==
  IF ~(input.file.exists /\ input.file.slack /\ input.file.token) THEN <<>>
  ELSE IF ~input.file.botToken.ref THEN input.file.botToken.text
  ELSE IF input.env.set THEN input.env.text ELSE <<>>
ProjectCount ==
  IF input.file.exists /\ input.file.projects THEN Cardinality(input.file.names) ELSE 0
ConfigurationOk == Credential # <<>> /\ ProjectCount >= 1

\* C22: the timer is armed only when the configuration holds a non-empty
\* credential and at least one project and the connection test returned ok;
\* in every other case startup ends exited with a non-zero code, and while
\* the connection test is awaited no timer is armed
C22_PollingOnlyAfterValidStartup ==
  output.fn = "main" =>
    /\ output.timer => ConfigurationOk /\ input.connection = "ok"
    /\ output.phase = "testing" => ConfigurationOk /\ ENABLED start
    /\ ~ConfigurationOk => output.phase = "exited"
    /\ (ConfigurationOk /\ input.connection # "ok") => output.phase \in {"testing", "exited"}
    /\ output.phase = "exited" => output.exitCode # 0 /\ ~output.timer
    /\ output.phase = "polling" <=> output.timer

C22_Witness ==
  /\ output = Polling
  /\ input.file.botToken.ref
  /\ Cardinality(input.file.names) = 2

\* ---- C23 ----
Bullet == <<"U+2022", " ">>
LabelOf(kind) ==
  CASE kind = TypeCreate -> <<"U+4F5C", "U+6210">>
    [] kind = TypeEdit -> <<"U+7DE8", "U+96C6">>
    [] kind = TypeDelete -> <<"U+524A", "U+9664">>
    [] OTHER -> <<"U+64CD", "U+4F5C">>
\* the root and the separator after it are removed, and nothing else
ShownPath(path, root) ==
  IF StartsWith(path, root \o <<"/">>) THEN Drop(path, Len(root) + 1) ELSE path
ShownEntry(file, root) ==
  Bullet \o <<"[">> \o LabelOf(file.type) \o <<"]", " ">> \o ShownPath(file.filePath, root)

\* C23: the list holds one entry per mutation, in order, with the label of
\* its kind and its path relative to the project root when the root and a
\* separator begin it, unchanged otherwise
C23_MutationListEntries ==
  (output.fn = "formatFileOperations" /\ input.files # <<>>) =>
    output.text =
      FilesHeader \o Join([i \in 1..Len(input.files) |->
                             ShownEntry(input.files[i], input.projectPath)], <<"\n">>)

\* ---- C24 ----
Resolves(m) ==
  LET command == parseCommand(m.text, ConfigChannelDefault(m.ch))
  IN command.ok /\ ProjectPath(command.projectName) # NoPath
TopLevelCommands == {m \in slack : m.thread = 0 /\ m.user # botUserId /\ Resolves(m)}
OpsOf(k) == [i \in 1..Len(trace[k]) |-> trace[k][i].op]
IsPrefix(s, t) == Len(s) <= Len(t) /\ \A i \in 1..Len(s) : s[i] = t[i]
ImagesOf(m) ==
  Cardinality({i \in 1..Len(m.files) : IsImage(m.files[i]) /\ m.files[i].url_private})
\* the order of the events of a top-level command with n images
Canon(n) ==
  <<"seen", "route", "post_ack">> \o [i \in 1..n |-> "download"]
    \o <<"exec", "post_result", "session">>
EventArg(k, op) == trace[k][CHOOSE i \in 1..Len(trace[k]) : trace[k][i].op = op].arg
SessionStepOf(k) ==
  /\ k \in DOMAIN trace' /\ Count(trace'[k], "session") = 1
  /\ ~Has(k, "session")

\* the events so far are a beginning of the order; the execution had no
\* resume id; the session exists once it is the last event, and not before,
\* with the project of the command and the session id of the execution
\* (until a reply of the thread writes its own)
OrderOf(m) ==
  LET k == MsgKey(m)
      command == parseCommand(m.text, ConfigChannelDefault(m.ch))
      i == SessionIndex(threadSessions, getSessionKey(k[1], k[2]))
  IN IF k \notin DOMAIN trace THEN i = 0
     ELSE /\ IsPrefix(OpsOf(k), Canon(ImagesOf(m)))
          /\ Has(k, "exec") => EventArg(k, "exec") = 0
          /\ \A e \in execLog : e.msg = k => e.resume = 0 /\ e.thread = 0
          /\ ~Has(k, "session") => i = 0
          /\ Has(k, "session") =>
               /\ i # 0
               /\ heap[threadSessions[i].session].projectName = command.projectName
               /\ heap[threadSessions[i].session].projectPath =
                    ProjectPath(command.projectName)
               /\ \E e \in execLog : e.msg = k /\ EventArg(k, "session") = e.sid
               /\ heap[threadSessions[i].session].sessionId =
                    IF lastDone[k] # 0 THEN lastDone[k] ELSE EventArg(k, "session")
               /\ k \in DOMAIN threadLastChecked

\* C24: for a top-level command whose project resolves the events occur in
\* the order seen, acknowledgment, downloads, execution without a resume
\* id, result post, session; the session holds the command's project and
\* the execution's session id, and at the step that creates it the thread
\* watermark is the timestamp of the message
C24_TopLevelOrder ==
  /\ [](\A m \in TopLevelCommands : OrderOf(m))
  /\ [][\A m \in slack :
          SessionStepOf(MsgKey(m)) =>
            /\ MsgKey(m) \in DOMAIN threadLastChecked'
            /\ threadLastChecked'[MsgKey(m)] = m.ts]_vars

C24_Witness ==
  \E m \in TopLevelCommands :
    /\ Has(MsgKey(m), "session") /\ Has(MsgKey(m), "download")
    /\ OpsOf(MsgKey(m)) = Canon(1)
    /\ threadLastChecked[MsgKey(m)] = m.ts

\* ---- C25 ----
\* a step of tick l inside handleThreadReply (after its first await)
ReplyHandlerStep(l) ==
  /\ InHandler(l) /\ l.thread # NoThread
  /\ CopiesIn(l, ticks') < CopiesIn(l, ticks)

\* C25: a step of the handling of a thread reply changes at most the
\* session id of the session of that thread, to the id the execution
\* returned and only when it returned one; the project name and path of
\* that session, every other session, the list of sessions and every thread
\* watermark stay as they are
C25_ReplyChangesOnlySessionId ==
  [][\A l \in ActiveTicks :
       ReplyHandlerStep(l) =>
         LET ref == l.thread.session
         IN /\ threadSessions' = threadSessions
            /\ threadLastChecked' = threadLastChecked
            /\ DOMAIN heap' = DOMAIN heap
            /\ \A r \in DOMAIN heap : r # ref => heap'[r] = heap[r]
            /\ heap'[ref].projectName = heap[ref].projectName
            /\ heap'[ref].projectPath = heap[ref].projectPath
            /\ heap'[ref].sessionId # heap[ref].sessionId =>
                 /\ l.pc = "post_result" /\ l.result.sessionId # 0
                 /\ heap'[ref].sessionId = l.result.sessionId
            /\ l.result.sessionId = 0 => heap' = heap]_vars

C25_Witness ==
  \E e \in execLog :
    /\ e.thread # 0 /\ e.sid # 0
    /\ <<e.msg[1], e.thread>> \in DOMAIN lastDone /\ lastDone[<<e.msg[1], e.thread>>] = e.sid
    /\ LET i == SessionIndex(threadSessions, getSessionKey(e.msg[1], e.thread))
       IN i # 0 /\ heap[threadSessions[i].session].sessionId = e.sid

\* ---- C26 ----
Unparsed ==
  {m \in slack : /\ m.thread = 0 /\ m.user # botUserId
                 /\ ~parseCommand(m.text, ConfigChannelDefault(m.ch)).ok}
\* m was in a batch a tick fetched and the tick has gone past it
ExaminedBy(l, m) ==
  /\ InHandler(l) /\ l.thread = NoThread
  /\ channelIds[l.ci] = m.ch
  /\ l.msg.ts < m.ts /\ m.ts <= l.latest

\* C26: a top-level message that matches neither grammar has no event at
\* all (it is not marked seen, nothing is posted for it, nothing executed),
\* its id is not in the dedup ledger, no handler is suspended on it and the
\* bot has posted nothing in its thread
C26_UnparsedIgnored ==
  \A m \in Unparsed :
    /\ MsgKey(m) \notin DOMAIN trace
    /\ m.ts \notin processedMessages
    /\ \A e \in execLog : e.msg # MsgKey(m)
    /\ \A l \in ActiveTicks : InHandler(l) => l.msg # m
    /\ \A b \in slack : b.user = botUserId => ~(b.ch = m.ch /\ b.thread = m.ts)

C26_Witness ==
  \E m \in Unparsed : \E l \in ActiveTicks : ExaminedBy(l, m)

\* ---- C27 ----
Blank(text) == Trim(text) = <<>>
\* user replies whose text is empty once trimmed and rid of mention tokens
EmptyReplies ==
  {m \in slack : m.thread # 0 /\ m.user # botUserId /\ Blank(StripMentions(Trim(m.text)))}

\* C27: no execution is given a prompt that is empty or white space only,
\* every parsed command (of a message, or held by a tick) has a prompt that
\* is not blank, and a reply that is empty after trimming and stripping the
\* mentions has no event other than being marked seen
C27_NoEmptyPrompt ==
  /\ \A e \in execLog : ~Blank(e.prompt)
  /\ \A l \in ActiveTicks : l.command.ok => ~Blank(l.command.prompt)
  /\ \A m \in slack :
       LET command == parseCommand(m.text, ConfigChannelDefault(m.ch))
       IN command.ok => ~Blank(command.prompt)
  /\ \A m \in EmptyReplies :
       /\ MsgKey(m) \in DOMAIN trace =>
            OpsOf(MsgKey(m)) = <<"seen">> /\ m.ts \in processedMessages
       /\ \A l \in ActiveTicks : InHandler(l) => l.msg # m

C27_Witness ==
  /\ \E m \in EmptyReplies : Has(MsgKey(m), "seen")
  /\ \E e \in execLog : e.thread # 0

\* ---- C28 ----
UserCommands ==
  {m \in slack : /\ m.thread = 0 /\ m.user # botUserId
                 /\ parseCommand(m.text, ConfigChannelDefault(m.ch)).ok}

\* C28: the dedup decision on a command is taken on that message in its
\* channel: its id is in the ledger only if the message itself was marked
\* seen, so the mark of a message of another channel never makes it skipped
C28_DedupPerChannel ==
  \A m \in UserCommands : m.ts \in processedMessages => Has(MsgKey(m), "seen")

\* ---- C30 ----
UserReplies == {m \in slack : m.thread # 0 /\ m.user # botUserId}
\* tick l still has reply m before it: it is handling it, holds it in the
\* batch it fetched, or awaits a fetch whose lower bound lets it in
PendingIn(l, m) ==
  /\ l.thread # NoThread
  /\ channelIds[l.ci] = m.ch /\ l.thread.threadTs = m.thread
  /\ \/ l.msg = m
     \/ \E i \in 1..Len(l.batch) : l.batch[i] = m
     \/ l.pc = "replies" /\ m.ts >= l.oldest
\* the watermark of the thread is past m, m was never marked seen and no
\* tick has it before it
Lost(m) ==
  /\ getSessionKey(m.ch, m.thread) \in DOMAIN threadLastChecked
  /\ m.ts < threadLastChecked[getSessionKey(m.ch, m.thread)]
  /\ m.ts \notin processedMessages
  /\ \A l \in ActiveTicks : ~PendingIn(l, m)

\* C30: no user reply of a thread is left behind the thread watermark
\* without having been handed to the reply handler, also when the handling
\* of another reply of its batch raised an error
C30_NoReplyLostAfterError ==
  \A m \in UserReplies : ~Lost(m)

\* ---- C29 ----
\* the i-th message of the users is a top-level command and has been posted
PostedCommand(i) ==
  /\ Len(posted) >= i
  /\ \E m \in UserCommands : MsgKey(m) = <<Scripts[script][i].ch, posted[i]>>
\* it was answered "project not found", or acknowledged and executed
RoutedCommand(i) ==
  LET k == <<Scripts[script][i].ch, posted[i]>>
  IN Len(posted) >= i /\ (Has(k, "post_nf") \/ (Has(k, "post_ack") /\ Has(k, "exec")))

\* C29 (of SpecFair): every command a user posts in a configured channel
\* is eventually routed
C29_EveryCommandRouted ==
  \A i \in 1..MaxUserMsgs : PostedCommand(i) ~> RoutedCommand(i)
====
